---- MODULE Spec2Model ----
(***************************************************************************)
(* Modbus RTU engine (Penguin096/ModbusRtu): one master object (u8id = 0)  *)
(* and one slave object (u8id = SlaveId) of class Modbus, joined by a      *)
(* serial line.  The polled entry points are those of the Arduino_h build  *)
(* (query, poll, poll(DO,DI,AI,AO,...), getRxBuffer, sendTxBuffer).        *)
(*                                                                         *)
(* Time: the code only ever compares millis() - u32timeOut and             *)
(* millis() - u32time with a threshold, so the two timestamps of an engine *)
(* are kept as their ages (milliseconds since they were taken), which stop *)
(* growing one past the threshold they are compared with.                  *)
(***************************************************************************)
EXTENDS Integers, Sequences, FiniteSets, TLC

\* ------------------------------------------------------------ constants
T35 == 5
MAX_BUFFER == 64
RESPONSE_SIZE == 6
EXCEPTION_SIZE == 3
ID == 0
FUNC == 1
ADD_HI == 2
ADD_LO == 3
NB_HI == 4
NB_LO == 5
BYTE_CNT == 6
MB_FC_READ_COILS == 1
MB_FC_READ_DISCRETE_INPUT == 2
MB_FC_READ_REGISTERS == 3
MB_FC_READ_INPUT_REGISTER == 4
MB_FC_WRITE_COIL == 5
MB_FC_WRITE_REGISTER == 6
MB_FC_DIAGNOSTIC == 8
MB_FC_WRITE_MULTIPLE_COILS == 15
MB_FC_WRITE_MULTIPLE_REGISTERS == 16
COM_IDLE == 0
COM_WAITING == 1
ERR_NOT_MASTER == -1
ERR_POLLING == -2
ERR_BUFF_OVERFLOW == -3
ERR_EXCEPTION == -5
NO_REPLY == 255
EXC_FUNC_CODE == 1
EXC_ADDR_RANGE == 2
EXC_REGS_QUANT == 3
EXC_EXECUTE == 4
fctsupported == <<1, 2, 3, 4, 5, 6, 8, 15, 16>>

\* ------------------------------------------------- fixed-width arithmetic
\* (uint8_t)x
U8(x) == x % 256

\* (uint16_t)x
U16(x) == x % 65536

\* (int8_t)x for x already reduced to 0..255
I8(x) == IF x % 256 >= 128 THEN (x % 256) - 256 ELSE x % 256

lowByte(w) == w % 256

highByte(w) == (w \div 256) % 256

\* word(h, l) with h, l bytes: (uint16_t)((h << 8) | l)
word(h, l) == (h * 256 + l) % 65536

\* ------------------------------------------------------ sequential steps
\* F applied to the value of x: x is worked out once, before F is applied,
\* as a statement of the code is finished before the next one starts
Bind(x, F(_)) == CHOOSE r \in {F(v) : v \in {x}} : TRUE

\* for (k = lo; k < hi; k++) st = body(st, k).  The iterations run in the
\* order of the code, each on the finished result of the one before; the
\* range is halved only to keep the evaluation shallow.
RECURSIVE Loop(_, _, _, _)
Loop(body(_, _), st, lo, hi) ==
  IF hi <= lo THEN st
  ELSE IF hi = lo + 1 THEN body(st, lo)
  ELSE Bind(Loop(body, st, lo, (lo + hi) \div 2),
            LAMBDA s : Loop(body, s, (lo + hi) \div 2, hi))

\* ------------------------------------------------------- bit operations
\* a ^ b, bit by bit
RECURSIVE xorBits(_, _)
xorBits(a, b) ==
  IF a = 0 THEN b
  ELSE IF b = 0 THEN a
  ELSE ((a + b) % 2) + 2 * xorBits(a \div 2, b \div 2)

\* a ^ b for 8-bit operands, evaluated once
xorByte == [a \in 0..255 |-> [b \in 0..255 |-> xorBits(a, b)]]

\* a ^ b for 16-bit operands, eight bits at a time
BitXor(a, b) ==
  xorByte[a % 256][b % 256] + 256 * xorByte[(a \div 256) % 256][(b \div 256) % 256]

RECURSIVE BitAnd(_, _)
BitAnd(a, b) ==
  IF a = 0 \/ b = 0 THEN 0
  ELSE ((a % 2) * (b % 2)) + 2 * BitAnd(a \div 2, b \div 2)

RECURSIVE BitOr(_, _)
BitOr(a, b) ==
  IF a = 0 THEN b
  ELSE IF b = 0 THEN a
  ELSE (IF (a % 2) + (b % 2) > 0 THEN 1 ELSE 0) + 2 * BitOr(a \div 2, b \div 2)

RECURSIVE Pow2(_)
Pow2(n) == IF n = 0 THEN 1 ELSE 2 * Pow2(n - 1)

\* ------------------------------------------------------------------ CRC
\* one pass of the inner loop of calcCRC: flag = temp & 1; temp >>= 1;
\* if (flag) temp ^= 0xA001
crcBit(temp) == IF temp % 2 = 1 THEN BitXor(temp \div 2, 40961) ELSE temp \div 2

\* the inner loop of calcCRC from pass j: j = 1..8
crcShift(temp, j) == Loop(LAMBDA t, k : crcBit(t), temp, j, 9)

\* the inner loop run on every value of the low byte of temp, evaluated once.
\* The eight shifts only move the high byte of temp down, and the loop
\* distributes over xor, so that for temp = 256 * h + l the inner loop
\* yields h ^ crcShift(l, 1).
crcShifted == [l \in 0..255 |-> crcShift(l, 1)]

\* one pass of the outer loop of calcCRC: temp = temp ^ b, then the inner loop
crcByte(temp, b) == BitXor(temp \div 256, crcShifted[xorByte[temp % 256][b]])

\* the outer loop of calcCRC over bytes i .. u8length-1 of the byte array buf
crcLoop(buf, u8length, i, temp) ==
  Loop(LAMBDA t, k : crcByte(t, buf[k]), temp, i, u8length)

\* the byte swap that ends calcCRC: crcLo in the high byte, crcHi in the low
crcSwap(temp) == (((temp % 256) * 256) + (temp \div 256)) % 65536

\* calcCRC: the CRC of buf[0..u8length-1], returned with its bytes swapped
calcCRC(buf, u8length) == crcSwap(crcLoop(buf, u8length, 0, 65535))

\* --------------------------------------------------------------- bounds
\* the slave's node address (constructor argument u8id)
SlaveId == 17
\* the address of a node that is not on the line
OtherId == 32
\* the argument of setTimeOut() in the master's setup
TimeOutMs == 10
\* the sizes of the slave application's four banks (arguments of poll)
DO_u8size == 10
DI_u8size == 3
AI_u8size == 3
AO_u8size == 28
\* the length of the master application's data image
ImgLen == 28
\* the master sends at most this many queries, and an idle master counts
\* at most this many errors
MaxCnt == 1
\* queries a master application that asks again after a time-out sends
MaxQueries == 2
\* the longest run of bytes the line delivers in one piece of a split frame
ChunkLen == 3

\* ------------------------------------------------- undefined behaviour
\* An access past the end of au8Buffer, of a bank or of the data image is
\* undefined.  Every operation draws one outcome ubc from UbChoices:
\*   adj = TRUE   the access lands in the object declared next (for
\*                au8Buffer: u8BufferSize at index 64, u8lastRec at 65);
\*   adj = FALSE  a write is lost and a read returns junk.
UbChoices == {[adj |-> FALSE, junk |-> 0], [adj |-> TRUE, junk |-> 255]}

ZeroBuffer == [i \in 0..(MAX_BUFFER - 1) |-> 0]

\* au8Buffer[i] as a read
RdBuf(e, i, ubc) ==
  IF i < MAX_BUFFER THEN e.au8Buffer[i]
  ELSE IF ubc.adj /\ i = MAX_BUFFER THEN e.u8BufferSize
  ELSE IF ubc.adj /\ i = MAX_BUFFER + 1 THEN e.u8lastRec
  ELSE ubc.junk

\* au8Buffer[i] = v
WrBuf(e, i, v, ubc) ==
  IF i < MAX_BUFFER THEN [e EXCEPT !.au8Buffer[i] = v]
  ELSE IF ubc.adj /\ i = MAX_BUFFER THEN [e EXCEPT !.u8BufferSize = v, !.oob = TRUE]
  ELSE IF ubc.adj /\ i = MAX_BUFFER + 1 THEN [e EXCEPT !.u8lastRec = v, !.oob = TRUE]
  ELSE [e EXCEPT !.oob = TRUE]

\* the bytes au8Buffer[0..n-1] as calcCRC and port->write read them
BufView(e, n, ubc) ==
  IF n <= MAX_BUFFER THEN e.au8Buffer
  ELSE [i \in 0..(n - 1) |-> RdBuf(e, i, ubc)]

\* ------------------------------------------------------ the Modbus object
\* The members of class Modbus.  timeOutAge is millis() - u32timeOut and
\* timeAge is millis() - u32time.  au16regs names the array the pointer holds
\* ("unset" before the first assignment).  oob is not a member: it records
\* that a write past the end of au8Buffer has happened.  u8current is the
\* static counter of received bytes of poll_IRQ_HAL, zero when the program
\* starts.
Engine(id, st, err, age) ==
  [u8id |-> id, u8state |-> st, u8lastError |-> err,
   au8Buffer |-> ZeroBuffer, u8BufferSize |-> 0, u8lastRec |-> 0, u8current |-> 0,
   u16InCnt |-> 0, u16OutCnt |-> 0, u16errCnt |-> 0,
   u16timeOut |-> TimeOutMs, timeOutAge |-> age, timeAge |-> age,
   u8regsize |-> 0, au16regs |-> "unset", oob |-> FALSE]

\* ages stop growing one past the threshold they are compared with
TimeOutCap == TimeOutMs + 1

\* ... and at the threshold T35, which they are compared with by <
TimeCap == T35

\* ... and one past T35 where poll_IRQ_HAL compares them with it by >
IrqTimeCap == T35 + 1

\* -------------------------------------------------------- sendTxBuffer
\* Appends the CRC, writes the buffer to the port, empties the own receive
\* FIFO, restarts the time-out.  Yields the new object and the bytes written.
sendTxBuffer(e, ubc) ==
  LET u16crc == calcCRC(BufView(e, e.u8BufferSize, ubc), e.u8BufferSize)
      e1 == WrBuf(e, e.u8BufferSize, u16crc \div 256, ubc)
      e2 == [e1 EXCEPT !.u8BufferSize = U8(@ + 1)]
      e3 == WrBuf(e2, e2.u8BufferSize, u16crc % 256, ubc)
      e4 == [e3 EXCEPT !.u8BufferSize = U8(@ + 1)]
  IN  [eng |-> [e4 EXCEPT !.u8BufferSize = 0, !.timeOutAge = 0,
                          !.u16OutCnt = U16(@ + 1)],
       frame |-> [k \in 1..e4.u8BufferSize |-> RdBuf(e4, k - 1, ubc)]]

\* sendTxBuffer_HAL: as sendTxBuffer, the bytes going to the data register
\* one by one.  Its last loop reads the data register while
\* (SR & USART_SR_RXNE) == 1, which no value of the masked bit satisfies.
sendTxBuffer_HAL(e, ubc) == sendTxBuffer(e, ubc)

\* --------------------------------------------------------- getRxBuffer
\* one pass of the while loop of getRxBuffer on r = [eng, ovf]: the byte b
\* read from the port is stored, the size counted, the overflow flag set
rxByte(r, b, ubc) ==
  LET e1 == WrBuf(r.eng, r.eng.u8BufferSize, b, ubc)
      e2 == [e1 EXCEPT !.u8BufferSize = U8(@ + 1)]
  IN  [eng |-> e2, ovf |-> r.ovf \/ e2.u8BufferSize >= MAX_BUFFER]

\* the while loop of getRxBuffer over the bytes rx of the receive FIFO
rxLoop(e, rx, ovf, ubc) ==
  Loop(LAMBDA r, k : rxByte(r, rx[k], ubc), [eng |-> e, ovf |-> ovf], 1, Len(rx) + 1)

\* Moves the whole receive FIFO to au8Buffer.  Yields the new object and the
\* int8_t result: the buffer size, or ERR_BUFF_OVERFLOW.
getRxBuffer(e, rx, ubc) ==
  Bind(rxLoop([e EXCEPT !.u8BufferSize = 0], rx, FALSE, ubc),
       LAMBDA r :
         LET e1 == [r.eng EXCEPT !.u16InCnt = U16(@ + 1)]
         IN  IF r.ovf
             THEN [eng |-> [e1 EXCEPT !.u16errCnt = U16(@ + 1)],
                   ret |-> ERR_BUFF_OVERFLOW]
             ELSE [eng |-> e1, ret |-> I8(e1.u8BufferSize)])

\* ------------------------------------------------------------ validation
\* the trailing two bytes of the frame, combined as the code combines them
msgCRC(e, ubc) ==
  (RdBuf(e, U8(e.u8BufferSize - 2), ubc) * 256) + RdBuf(e, U8(e.u8BufferSize - 1), ubc)

crcMatches(e, ubc) ==
  LET n == U8(e.u8BufferSize - 2)
  IN  calcCRC(BufView(e, n, ubc), n) = msgCRC(e, ubc)

isSupported(fct) == \E i \in 1..Len(fctsupported) : fctsupported[i] = fct

\* the switch of validateRequest: TRUE when it returns EXC_ADDR_RANGE
addrOutOfRange(e) ==
  LET fct   == e.au8Buffer[FUNC]
      start == word(e.au8Buffer[ADD_HI], e.au8Buffer[ADD_LO])
      nb    == word(e.au8Buffer[NB_HI], e.au8Buffer[NB_LO])
  IN  CASE fct = MB_FC_WRITE_COIL -> U8(U16(start \div 16)) > e.u8regsize
        [] fct = MB_FC_WRITE_REGISTER -> U8(start) > e.u8regsize
        [] fct \in {MB_FC_READ_COILS, MB_FC_READ_DISCRETE_INPUT,
                    MB_FC_WRITE_MULTIPLE_COILS, MB_FC_READ_REGISTERS,
                    MB_FC_READ_INPUT_REGISTER, MB_FC_WRITE_MULTIPLE_REGISTERS}
             -> U8(U16(start + nb)) > e.u8regsize
        [] OTHER -> FALSE

\* validateRequest: yields the new object and the uint8_t result
validateRequest(e, ubc) ==
  IF ~crcMatches(e, ubc)
  THEN [eng |-> [e EXCEPT !.u16errCnt = U16(@ + 1)], ret |-> NO_REPLY]
  ELSE IF ~isSupported(e.au8Buffer[FUNC])
  THEN [eng |-> [e EXCEPT !.u16errCnt = U16(@ + 1)], ret |-> EXC_FUNC_CODE]
  ELSE IF addrOutOfRange(e)
  THEN [eng |-> e, ret |-> EXC_ADDR_RANGE]
  ELSE [eng |-> e, ret |-> 0]

\* validateAnswer: yields the new object and the uint8_t result
validateAnswer(e, ubc) ==
  IF ~crcMatches(e, ubc)
  THEN [eng |-> [e EXCEPT !.u16errCnt = U16(@ + 1)], ret |-> NO_REPLY]
  ELSE IF BitAnd(e.au8Buffer[FUNC], 128) # 0
  THEN [eng |-> [e EXCEPT !.u16errCnt = U16(@ + 1)], ret |-> U8(ERR_EXCEPTION)]
  ELSE IF ~isSupported(e.au8Buffer[FUNC])
  THEN [eng |-> [e EXCEPT !.u16errCnt = U16(@ + 1)], ret |-> EXC_FUNC_CODE]
  ELSE [eng |-> e, ret |-> 0]

\* buildException
buildException(e, u8exception) ==
  LET u8func == e.au8Buffer[FUNC]
  IN  [e EXCEPT !.au8Buffer[ID] = e.u8id,
                !.au8Buffer[FUNC] = U8(u8func + 128),
                !.au8Buffer[2] = u8exception,
                !.u8BufferSize = EXCEPTION_SIZE]

\* ------------------------------------------------ slave function handlers
\* A handler works on h = [eng, regs, spill, ubm, hang]: the object, the bank
\* it was passed, the writes that fell past the end of the bank (offset past
\* the end, value), whether the bank was accessed out of range, and whether
\* the handler's loop never ends.
Handler(e, regs) ==
  [eng |-> e, regs |-> regs, spill |-> <<>>, ubm |-> FALSE, hang |-> FALSE]

\* regs[idx] = v
WrBank(h, u8size, idx, v) ==
  IF idx < u8size THEN [h EXCEPT !.regs[idx] = v]
  ELSE [h EXCEPT !.spill = Append(@, <<idx - u8size, v>>), !.ubm = TRUE]

\* regs[idx] as a read of a bool bank
RdCoil(h, u8size, idx, ubc) ==
  IF idx < u8size THEN h.regs[idx] ELSE ubc.junk # 0

\* regs[idx] as a read of a word bank
RdWord(h, u8size, idx, ubc) ==
  IF idx < u8size THEN h.regs[idx] ELSE ubc.junk * 257

\* one pass of the for loop of process_FC1, on coil i; u8bitsno is the
\* position of its bit in the reply byte
fc1Coil(h, u8size, u16StartCoil, i, u8bitsno, ubc) ==
  LET e   == h.eng
      bit == IF RdCoil(h, u8size, u16StartCoil + i, ubc) THEN 1 ELSE 0
      e1  == WrBuf(e, e.u8BufferSize,
                   BitOr(RdBuf(e, e.u8BufferSize, ubc), U8(bit * Pow2(u8bitsno))), ubc)
      e2  == IF u8bitsno + 1 > 7 THEN [e1 EXCEPT !.u8BufferSize = U8(@ + 1)] ELSE e1
  IN  [h EXCEPT !.eng = e2, !.ubm = @ \/ (u16StartCoil + i >= u8size)]

\* the for loop of process_FC1; u8bitsno starts at 0, goes up by one with
\* every coil and back to 0 after 7
fc1Loop(h, u8size, u16StartCoil, u16Coilno, ubc) ==
  Loop(LAMBDA g, i : fc1Coil(g, u8size, u16StartCoil, i, i % 8, ubc), h, 0, u16Coilno)

process_FC1(e, regs, u8size, ubc) ==
  LET u16StartCoil == U8(word(e.au8Buffer[ADD_HI], e.au8Buffer[ADD_LO]))
      u16Coilno    == word(e.au8Buffer[NB_HI], e.au8Buffer[NB_LO])
      u8bytesno    == U8((u16Coilno \div 8) + (IF u16Coilno % 8 # 0 THEN 1 ELSE 0))
      e1 == [e EXCEPT !.au8Buffer[ADD_HI] = u8bytesno, !.u8BufferSize = ADD_LO]
      e2 == WrBuf(e1, ADD_LO + u8bytesno - 1, 0, ubc)
      h  == fc1Loop(Handler(e2, regs), u8size, u16StartCoil, u16Coilno, ubc)
  IN  IF u16Coilno % 8 # 0
      THEN [h EXCEPT !.eng.u8BufferSize = U8(@ + 1)]
      ELSE h

\* one pass of the for loop of process_FC3, on register i
fc3Reg(h, u8size, i, ubc) ==
  LET e  == h.eng
      w  == RdWord(h, u8size, i, ubc)
      e1 == WrBuf(e, e.u8BufferSize, highByte(w), ubc)
      e2 == [e1 EXCEPT !.u8BufferSize = U8(@ + 1)]
      e3 == WrBuf(e2, e2.u8BufferSize, lowByte(w), ubc)
      e4 == [e3 EXCEPT !.u8BufferSize = U8(@ + 1)]
  IN  [h EXCEPT !.eng = e4, !.ubm = @ \/ (i >= u8size)]

\* the for loop of process_FC3 from register i to end - 1 (end <= 256)
fc3Loop(h, u8size, i, end, ubc) ==
  Loop(LAMBDA g, k : fc3Reg(g, u8size, k, ubc), h, i, end)

\* process_FC3.  The loop counter i is a uint8_t compared with the int
\* u8StartAdd + u8regsno: when that sum is above 255 the counter wraps
\* before it reaches it and the loop never ends.
process_FC3(e, regs, u8size, ubc) ==
  LET u8StartAdd == U8(word(e.au8Buffer[ADD_HI], e.au8Buffer[ADD_LO]))
      u8regsno   == U8(word(e.au8Buffer[NB_HI], e.au8Buffer[NB_LO]))
      e1 == [e EXCEPT !.au8Buffer[2] = U8(u8regsno * 2), !.u8BufferSize = 3]
  IN  IF u8regsno > 0 /\ u8StartAdd + u8regsno > 255
      THEN [Handler(e1, regs) EXCEPT !.hang = TRUE, !.ubm = TRUE, !.eng.oob = TRUE]
      ELSE fc3Loop(Handler(e1, regs), u8size, u8StartAdd, u8StartAdd + u8regsno, ubc)

process_FC5(e, regs, u8size, ubc) ==
  LET u16coil == U8(word(e.au8Buffer[ADD_HI], e.au8Buffer[ADD_LO]))
      h == WrBank(Handler(e, regs), u8size, u16coil, e.au8Buffer[NB_HI] = 255)
  IN  [h EXCEPT !.eng.u8BufferSize = 6]

process_FC6(e, regs, u8size, ubc) ==
  LET u8add  == U8(word(e.au8Buffer[ADD_HI], e.au8Buffer[ADD_LO]))
      u16val == word(e.au8Buffer[NB_HI], e.au8Buffer[NB_LO])
      h == WrBank(Handler(e, regs), u8size, u8add, u16val)
  IN  [h EXCEPT !.eng.u8BufferSize = RESPONSE_SIZE]

\* one pass of the for loop of process_FC15, on coil i, with the frame byte
\* and the bit position the loop has reached
fc15Coil(h, u8size, u16StartCoil, i, u8frameByte, u8bitsno, ubc) ==
  LET v == U8(BitAnd(RdBuf(h.eng, u8frameByte, ubc), u8bitsno + 1)) \div Pow2(u8bitsno)
  IN  WrBank(h, u8size, u16StartCoil + i, v # 0)

\* the for loop of process_FC15; u8bitsno goes as in process_FC1, and
\* u8frameByte starts at 7 and goes up by one whenever u8bitsno returns to 0
fc15Loop(h, u8size, u16StartCoil, u16Coilno, ubc) ==
  Loop(LAMBDA g, i : fc15Coil(g, u8size, u16StartCoil, i, U8(7 + (i \div 8)), i % 8, ubc),
       h, 0, u16Coilno)

process_FC15(e, regs, u8size, ubc) ==
  LET u16StartCoil == U8(word(e.au8Buffer[ADD_HI], e.au8Buffer[ADD_LO]))
      u16Coilno    == word(e.au8Buffer[NB_HI], e.au8Buffer[NB_LO])
      h == fc15Loop(Handler(e, regs), u8size, u16StartCoil, u16Coilno, ubc)
  IN  [h EXCEPT !.eng.u8BufferSize = 6]

\* one pass of the for loop of process_FC16, on register i
fc16Reg(h, u8size, u8StartAdd, i, ubc) ==
  LET temp == word(RdBuf(h.eng, (BYTE_CNT + 1) + i * 2, ubc),
                   RdBuf(h.eng, (BYTE_CNT + 2) + i * 2, ubc))
  IN  WrBank(h, u8size, u8StartAdd + i, temp)

\* the for loop of process_FC16
fc16Loop(h, u8size, u8StartAdd, u8regsno, ubc) ==
  Loop(LAMBDA g, i : fc16Reg(g, u8size, u8StartAdd, i, ubc), h, 0, u8regsno)

process_FC16(e, regs, u8size, ubc) ==
  LET u8StartAdd == U8(word(e.au8Buffer[ADD_HI], e.au8Buffer[ADD_LO]))
      u8regsno   == U8(word(e.au8Buffer[NB_HI], e.au8Buffer[NB_LO]))
      e1 == [e EXCEPT !.au8Buffer[NB_HI] = 0, !.au8Buffer[NB_LO] = u8regsno,
                      !.u8BufferSize = RESPONSE_SIZE]
  IN  fc16Loop(Handler(e1, regs), u8size, u8StartAdd, u8regsno, ubc)

\* ------------------------------------------------- master: the data image
\* au16regs[i] as a read
RdImg(img, i, ubc) == IF i < ImgLen THEN img[i] ELSE ubc.junk * 257

\* au16regs[i] = v on m = [img, ubm]: a write past the image is lost
WrImg(m, i, v) ==
  IF i < ImgLen THEN [m EXCEPT !.img[i] = v] ELSE [m EXCEPT !.ubm = TRUE]

\* one pass of the for loop of get_FC1, on byte i of the reply's data
getFc1Byte(m, e, i, ubc) ==
  IF i % 2 = 1
  THEN WrImg(m, i \div 2, word(RdBuf(e, i + 3, ubc), lowByte(RdImg(m.img, i \div 2, ubc))))
  ELSE WrImg(m, i \div 2, RdBuf(e, i + 3, ubc))

\* the for loop of get_FC1 from byte i
getFc1Loop(m, e, i, ubc) ==
  Loop(LAMBDA n, k : getFc1Byte(n, e, k, ubc), m, i, e.au8Buffer[2])

get_FC1(e, img, ubc) == getFc1Loop([img |-> img, ubm |-> FALSE], e, 0, ubc)

\* a variant of fc3Word that takes the low byte first
fc3WordLowFirst(e, u8byte, ubc) ==
  word(RdBuf(e, u8byte + 1, ubc), RdBuf(e, u8byte, ubc))

\* the word get_FC3 stores: word(au8Buffer[u8byte], au8Buffer[u8byte + 1])
fc3Word(e, u8byte, ubc) ==
  word(RdBuf(e, u8byte, ubc), RdBuf(e, u8byte + 1, ubc))

\* the for loop of get_FC3 from word i; u8byte, the frame index of the
\* word's bytes, starts at u8byte and goes up by two with every word
getFc3Loop(m, e, i, u8byte, ubc) ==
  Loop(LAMBDA n, k : WrImg(n, k, fc3Word(e, U8(u8byte + 2 * (k - i)), ubc)),
       m, i, e.au8Buffer[2] \div 2)

get_FC3(e, img, ubc) == getFc3Loop([img |-> img, ubm |-> FALSE], e, 0, 3, ubc)

\* ---------------------------------------------------------------- query
\* au8Buffer[u8BufferSize] = b; u8BufferSize++ for every b of bytes
putByte(e, b, ubc) ==
  [WrBuf(e, e.u8BufferSize, b, ubc) EXCEPT !.u8BufferSize = U8(e.u8BufferSize + 1)]

\* the for loops of query that store the payload bytes
putBytes(e, bytes, ubc) ==
  Loop(LAMBDA g, k : putByte(g, bytes[k], ubc), e, 1, Len(bytes) + 1)

\* the payload bytes of a function 15 query: the image words, high byte first
fc15Bytes(img, u8bytesno, ubc) ==
  [i \in 1..u8bytesno |->
     IF (i - 1) % 2 = 1 THEN lowByte(RdImg(img, (i - 1) \div 2, ubc))
     ELSE highByte(RdImg(img, (i - 1) \div 2, ubc))]

\* the payload bytes of a function 16 query
fc16Bytes(img, n, ubc) ==
  [i \in 1..(2 * n) |->
     IF (i - 1) % 2 = 1 THEN lowByte(RdImg(img, (i - 1) \div 2, ubc))
     ELSE highByte(RdImg(img, (i - 1) \div 2, ubc))]

\* the telegram header and the switch of query: the buffer before the CRC
queryBuild(e, telegram, img, ubc) ==
  LET fct == telegram.u8fct
      e0  == [e EXCEPT !.au8Buffer[ID] = telegram.u8id,
                       !.au8Buffer[FUNC] = fct,
                       !.au8Buffer[ADD_HI] = highByte(telegram.u16RegAdd),
                       !.au8Buffer[ADD_LO] = lowByte(telegram.u16RegAdd)]
      nbq == [e0 EXCEPT !.au8Buffer[NB_HI] = highByte(telegram.u16CoilsNo),
                        !.au8Buffer[NB_LO] = lowByte(telegram.u16CoilsNo)]
      u8regsno0 == U8(telegram.u16CoilsNo \div 16)
      u8bytesno == IF telegram.u16CoilsNo % 16 # 0
                   THEN U8(U8(u8regsno0 * 2) + 1) ELSE U8(u8regsno0 * 2)
  IN  CASE fct \in {MB_FC_READ_COILS, MB_FC_READ_DISCRETE_INPUT,
                    MB_FC_READ_REGISTERS, MB_FC_READ_INPUT_REGISTER}
             -> [nbq EXCEPT !.u8BufferSize = 6]
        [] fct = MB_FC_WRITE_COIL
             -> [e0 EXCEPT !.au8Buffer[NB_HI] = IF RdImg(img, 0, ubc) > 0 THEN 255 ELSE 0,
                           !.au8Buffer[NB_LO] = 0, !.u8BufferSize = 6]
        [] fct = MB_FC_WRITE_REGISTER
             -> [e0 EXCEPT !.au8Buffer[NB_HI] = highByte(RdImg(img, 0, ubc)),
                           !.au8Buffer[NB_LO] = lowByte(RdImg(img, 0, ubc)),
                           !.u8BufferSize = 6]
        [] fct = MB_FC_DIAGNOSTIC
             -> [e0 EXCEPT !.au8Buffer[NB_HI] = 0, !.au8Buffer[NB_LO] = 0,
                           !.u8BufferSize = 6]
        [] fct = MB_FC_WRITE_MULTIPLE_COILS
             -> putBytes([nbq EXCEPT !.au8Buffer[BYTE_CNT] = u8bytesno, !.u8BufferSize = 7],
                         fc15Bytes(img, u8bytesno, ubc), ubc)
        [] fct = MB_FC_WRITE_MULTIPLE_REGISTERS
             -> putBytes([nbq EXCEPT !.au8Buffer[BYTE_CNT] = U8(telegram.u16CoilsNo * 2),
                                     !.u8BufferSize = 7],
                         fc16Bytes(img, telegram.u16CoilsNo, ubc), ubc)
        [] OTHER -> e0

\* a variant of queryRefusal that tests the telegram's id first
queryRefusalIdFirst(e, telegram) ==
  IF telegram.u8id = 0 \/ telegram.u8id > 247 THEN -3
  ELSE IF e.u8id # 0 THEN -2
  ELSE IF e.u8state # COM_IDLE THEN -1
  ELSE 0

\* a variant of queryRefusal without the test of u8state
queryRefusalAnyState(e, telegram) ==
  IF e.u8id # 0 THEN -2
  ELSE IF telegram.u8id = 0 \/ telegram.u8id > 247 THEN -3
  ELSE 0

\* the three early returns of query: the value returned, 0 when none is taken
queryRefusal(e, telegram) ==
  IF e.u8id # 0 THEN -2
  ELSE IF e.u8state # COM_IDLE THEN -1
  ELSE IF telegram.u8id = 0 \/ telegram.u8id > 247 THEN -3
  ELSE 0

\* query: yields the new object, the bytes written to the port and the result
query(e, telegram, img, ubc) ==
  IF queryRefusal(e, telegram) # 0
  THEN [eng |-> e, frame |-> <<>>, ret |-> queryRefusal(e, telegram), sent |-> FALSE]
  ELSE LET s == sendTxBuffer(queryBuild([e EXCEPT !.au16regs = "au16data"],
                                        telegram, img, ubc), ubc)
       IN  [eng |-> [s.eng EXCEPT !.u8state = COM_WAITING, !.u8lastError = 0],
            frame |-> s.frame, ret |-> 0, sent |-> TRUE]

\* ------------------------------------------------------- poll (master)
\* a variant of echoWord that takes the low byte first
echoWordLowFirst(e) == word(e.au8Buffer[4 + 1], e.au8Buffer[4])

\* the word poll stores for a reply of function 5 or 6:
\* word(au8Buffer[4], au8Buffer[4 + 1])
echoWord(e) == word(e.au8Buffer[4], e.au8Buffer[4 + 1])

\* a variant of timedOut that only a waiting master applies
timedOutWhileWaiting(e) == e.u8state = COM_WAITING /\ e.timeOutAge > e.u16timeOut

\* a variant of timedOut that never expires
timedOutNever(e) == e.timeOutAge < 0

\* a variant of timedOut that expires at u16timeOut already
timedOutAtLimit(e) == e.timeOutAge >= e.u16timeOut

\* the first test of the master's poll: the reply time-out has passed
timedOut(e) == e.timeOutAge > e.u16timeOut

\* The master's poll() on the object e, the receive FIFO rx and the data
\* image img.  Yields the new object, FIFO and image, the int8_t result, the
\* branch that returned (path), the frame moved out of the FIFO (rxd) and
\* whether the image was accessed out of range (ubm).
pollMaster(e, rx, img, ubc) ==
  LET u8current == U8(Len(rx))
      quiet(e1, path) ==
        [eng |-> e1, rx |-> rx, img |-> img, ret |-> 0, path |-> path,
         rxd |-> <<>>, ubm |-> FALSE]
  IN
  IF timedOut(e)
  THEN quiet([e EXCEPT !.u8state = COM_IDLE, !.u8lastError = NO_REPLY,
                       !.u16errCnt = U16(@ + 1)], "timeout")
  ELSE IF u8current = 0 THEN quiet(e, "empty")
  ELSE IF u8current # e.u8lastRec
  THEN quiet([e EXCEPT !.u8lastRec = u8current, !.timeAge = 0], "count")
  ELSE IF e.timeAge < T35 THEN quiet(e, "t35")
  ELSE
    Bind(getRxBuffer([e EXCEPT !.u8lastRec = 0], rx, ubc), LAMBDA g :
    IF g.ret < 6
    THEN [eng |-> [g.eng EXCEPT !.u8state = COM_IDLE, !.u16errCnt = U16(@ + 1)],
          rx |-> <<>>, img |-> img, ret |-> g.ret, path |-> "short",
          rxd |-> rx, ubm |-> FALSE]
    ELSE
      Bind(validateAnswer(g.eng, ubc), LAMBDA v :
      IF v.ret # 0
      THEN [eng |-> [v.eng EXCEPT !.u8state = COM_IDLE],
            rx |-> <<>>, img |-> img, ret |-> I8(v.ret), path |-> "invalid",
            rxd |-> rx, ubm |-> FALSE]
      ELSE
        LET fct == v.eng.au8Buffer[FUNC]
            m0  == [img |-> img, ubm |-> FALSE]
        IN
        Bind(CASE fct \in {MB_FC_READ_COILS, MB_FC_READ_DISCRETE_INPUT}
                    -> get_FC1(v.eng, img, ubc)
               [] fct \in {MB_FC_READ_INPUT_REGISTER, MB_FC_READ_REGISTERS}
                    -> get_FC3(v.eng, img, ubc)
               [] fct \in {MB_FC_WRITE_COIL, MB_FC_WRITE_REGISTER}
                    -> WrImg(m0, 0, echoWord(v.eng))
               [] OTHER -> m0,
             LAMBDA m :
        LET wild == v.eng.au16regs = "unset" /\ m.img # img
        IN  [eng |-> [v.eng EXCEPT !.u8state = COM_IDLE],
             rx |-> <<>>, img |-> IF v.eng.au16regs = "unset" THEN img ELSE m.img,
             ret |-> I8(v.eng.u8BufferSize), path |-> "ok",
             rxd |-> rx, ubm |-> m.ubm \/ wild])))

\* -------------------------------------------------------- poll (slave)
\* a variant of addressedHere that also takes requests sent to all nodes
addressedHereOrAll(e) == e.au8Buffer[ID] = e.u8id \/ e.au8Buffer[ID] = 0

\* the test of the slave's poll on the address byte of the received frame
addressedHere(e) == e.au8Buffer[ID] = e.u8id

\* the first switch of poll: u8regsize by function code
regsizeFor(e, sizes) ==
  LET fct == e.au8Buffer[FUNC]
  IN  CASE fct = MB_FC_READ_DISCRETE_INPUT -> sizes.DI
        [] fct = MB_FC_READ_INPUT_REGISTER -> sizes.AI
        [] fct \in {MB_FC_READ_COILS, MB_FC_WRITE_COIL, MB_FC_WRITE_MULTIPLE_COILS}
             -> sizes.DO
        [] fct \in {MB_FC_READ_REGISTERS, MB_FC_WRITE_REGISTER,
                    MB_FC_WRITE_MULTIPLE_REGISTERS} -> sizes.AO
        [] OTHER -> e.u8regsize

\* the second switch of poll: the handler by function code, on the banks b
dispatch(e, b, sizes, ubc) ==
  LET fct == e.au8Buffer[FUNC]
  IN  CASE fct = MB_FC_READ_COILS -> [bank |-> "DO", h |-> process_FC1(e, b.DO, sizes.DO, ubc)]
        [] fct = MB_FC_READ_DISCRETE_INPUT
             -> [bank |-> "DI", h |-> process_FC1(e, b.DI, sizes.DI, ubc)]
        [] fct = MB_FC_READ_REGISTERS
             -> [bank |-> "AO", h |-> process_FC3(e, b.AO, sizes.AO, ubc)]
        [] fct = MB_FC_READ_INPUT_REGISTER
             -> [bank |-> "AI", h |-> process_FC3(e, b.AI, sizes.AI, ubc)]
        [] fct = MB_FC_WRITE_COIL
             -> [bank |-> "DO", h |-> process_FC5(e, b.DO, sizes.DO, ubc)]
        [] fct = MB_FC_WRITE_REGISTER
             -> [bank |-> "AO", h |-> process_FC6(e, b.AO, sizes.AO, ubc)]
        [] fct = MB_FC_WRITE_MULTIPLE_COILS
             -> [bank |-> "DO", h |-> process_FC15(e, b.DO, sizes.DO, ubc)]
        [] fct = MB_FC_WRITE_MULTIPLE_REGISTERS
             -> [bank |-> "AO", h |-> process_FC16(e, b.AO, sizes.AO, ubc)]
        [] OTHER -> [bank |-> "none", h |-> Handler(e, <<>>)]

\* the bank that follows bank in the application's memory, for the writes
\* that fall past the end of bank
nextBank(bank) ==
  CASE bank = "DO" -> "DI" [] bank = "DI" -> "DO"
    [] bank = "AO" -> "AI" [] bank = "AI" -> "AO" [] OTHER -> "none"

\* the writes of spill applied to the bank regs of size u8size
applySpill(regs, u8size, spill) ==
  Loop(LAMBDA r, k : IF spill[k][1] < u8size
                     THEN [r EXCEPT ![spill[k][1]] = spill[k][2]] ELSE r,
       regs, 1, Len(spill) + 1)

\* the banks after the handler result d = [bank, h]
banksAfter(b, sizes, d, ubc) ==
  IF d.bank = "none" THEN b
  ELSE LET b1 == [b EXCEPT ![d.bank] = d.h.regs]
           nb == nextBank(d.bank)
       IN  IF ubc.adj /\ d.h.spill # <<>>
           THEN [b1 EXCEPT ![nb] = applySpill(b1[nb], sizes[nb], d.h.spill)]
           ELSE b1

\* The slave's poll(DO, DI, AI, AO, sizes) on the object e, the receive FIFO
\* rx and the banks b.  Yields the new object, FIFO and banks, the int8_t
\* result, the branch that returned (path), the frame moved out of the FIFO
\* (rxd), the bytes written to the port (tx), the result of validateRequest
\* (exc, -1 when it was not called), ubm and hang as for the handlers.
pollSlave(e0, rx, b, sizes, ubc) ==
  LET e == [e0 EXCEPT !.au16regs = "AO"]
      u8current == U8(Len(rx))
      quiet(e1, path) ==
        [eng |-> e1, rx |-> rx, banks |-> b, ret |-> 0, path |-> path,
         rxd |-> <<>>, tx |-> <<>>, exc |-> -1, ubm |-> FALSE, hang |-> FALSE]
  IN
  IF u8current = 0 THEN quiet(e, "empty")
  ELSE IF u8current # e.u8lastRec
  THEN quiet([e EXCEPT !.u8lastRec = u8current, !.timeAge = 0], "count")
  ELSE IF e.timeAge < T35 THEN quiet(e, "t35")
  ELSE
    LET g  == getRxBuffer([e EXCEPT !.u8lastRec = 0], rx, ubc)
        e1 == [g.eng EXCEPT !.u8lastError = U8(g.ret)]
        done(e2, ret, path, tx, exc) ==
          [eng |-> e2, rx |-> <<>>, banks |-> b, ret |-> ret, path |-> path,
           rxd |-> rx, tx |-> tx, exc |-> exc, ubm |-> FALSE, hang |-> FALSE]
    IN
    IF g.ret < 7 THEN done(e1, g.ret, "short", <<>>, -1)
    ELSE IF ~addressedHere(e1) THEN done(e1, 0, "foreign", <<>>, -1)
    ELSE
      LET v == validateRequest([e1 EXCEPT !.u8regsize = regsizeFor(e1, sizes)], ubc)
      IN
      IF v.ret > 0
      THEN IF v.ret # NO_REPLY
           THEN LET s == sendTxBuffer(buildException(v.eng, v.ret), ubc)
                IN  done([s.eng EXCEPT !.u8lastError = v.ret], I8(v.ret),
                         "exception", s.frame, v.ret)
           ELSE done([v.eng EXCEPT !.u8lastError = v.ret], I8(v.ret),
                     "badcrc", <<>>, v.ret)
      ELSE
        LET d == dispatch([v.eng EXCEPT !.timeOutAge = 0, !.u8lastError = 0],
                          b, sizes, ubc)
            s == sendTxBuffer(d.h.eng, ubc)
        IN  IF d.h.hang
            THEN [eng |-> d.h.eng, rx |-> <<>>, banks |-> b, ret |-> 0,
                  path |-> "hang", rxd |-> rx, tx |-> <<>>, exc |-> 0,
                  ubm |-> TRUE, hang |-> TRUE]
            ELSE [eng |-> s.eng, rx |-> <<>>, banks |-> banksAfter(b, sizes, d, ubc),
                  ret |-> 0, path |-> "reply", rxd |-> rx, tx |-> s.frame,
                  exc |-> 0, ubm |-> d.h.ubm, hang |-> FALSE]

\* ------------------------------------------------ poll_IRQ_HAL (slave)
\* process_FC8: TRUE when it calls restart()
process_FC8(e) == U8(word(e.au8Buffer[ADD_HI], e.au8Buffer[ADD_LO])) = 1

\* a variant of irqIncomplete that takes a frame of function 15 or 16 as
\* complete one byte early
irqIncompleteEarly(e) ==
  \/ e.u8current < 8
  \/ /\ e.au8Buffer[FUNC] \in {15, 16}
     /\ e.u8current < e.au8Buffer[BYTE_CNT] + 8

\* the test of poll_IRQ_HAL that the frame is not yet complete
irqIncomplete(e) ==
  \/ e.u8current < 8
  \/ /\ e.au8Buffer[FUNC] \in {15, 16}
     /\ e.u8current < e.au8Buffer[BYTE_CNT] + 9

\* the bytes au8Buffer[0..u8BufferSize-1]
bufFrame(e) == [k \in 1..e.u8BufferSize |-> e.au8Buffer[k - 1]]

\* poll_IRQ_HAL(DO, DI, AI, AO, sizes) on the object e0, the byte in the
\* receive data register and the banks b.  Yields as pollSlave does; rxd is
\* the frame in au8Buffer when it was taken as complete, and restart tells
\* that NVIC_SystemReset() was called.
pollIrqHal(e0, byte, b, sizes, ubc) ==
  LET ea == [e0 EXCEPT !.au16regs = "AO",
                       !.u8current = IF e0.timeAge > T35 THEN 0 ELSE @,
                       !.timeAge = 0]
      e  == [ea EXCEPT !.au8Buffer[ea.u8current] = byte]
      done(e2, bk, ret, path, rxd, tx, exc, ubm, hang, restart) ==
        [eng |-> e2, banks |-> bk, ret |-> ret, path |-> path, rxd |-> rxd,
         tx |-> tx, exc |-> exc, ubm |-> ubm, hang |-> hang, restart |-> restart]
      quiet(e2, ret, path) ==
        done(e2, b, ret, path, <<>>, <<>>, -1, FALSE, FALSE, FALSE)
  IN
  IF ~addressedHere(e) THEN quiet(e, 0, "foreign")
  ELSE
    LET e1 == [e EXCEPT !.u8current = U8(@ + 1)]
    IN
    IF e1.u8current >= MAX_BUFFER
    THEN quiet([e1 EXCEPT !.u16errCnt = U16(@ + 1), !.u8current = 0,
                          !.u8lastError = U8(ERR_BUFF_OVERFLOW)],
               ERR_BUFF_OVERFLOW, "overflow")
    ELSE IF irqIncomplete(e1) THEN quiet(e1, 0, "part")
    ELSE
      LET e2 == [e1 EXCEPT !.u8BufferSize = e1.u8current, !.u8current = 0]
          rxd == bufFrame(e2)
          v == validateRequest([e2 EXCEPT !.u8regsize = regsizeFor(e2, sizes)], ubc)
      IN
      IF v.ret > 0
      THEN IF v.ret # NO_REPLY
           THEN LET s == sendTxBuffer_HAL(buildException(v.eng, v.ret), ubc)
                IN  done([s.eng EXCEPT !.u8lastError = v.ret], b, I8(v.ret),
                         "exception", rxd, s.frame, v.ret, FALSE, FALSE, FALSE)
           ELSE done([v.eng EXCEPT !.u8lastError = v.ret], b, I8(v.ret),
                     "badcrc", rxd, <<>>, v.ret, FALSE, FALSE, FALSE)
      ELSE
        LET e3 == [v.eng EXCEPT !.timeOutAge = 0, !.u8lastError = 0]
            d  == dispatch(e3, b, sizes, ubc)
            s  == sendTxBuffer_HAL(d.h.eng, ubc)
        IN  IF e3.au8Buffer[FUNC] = MB_FC_DIAGNOSTIC /\ process_FC8(e3)
            THEN done(e3, b, 0, "restart", rxd, <<>>, 0, FALSE, FALSE, TRUE)
            ELSE IF d.h.hang
            THEN done(d.h.eng, b, 0, "hang", rxd, <<>>, 0, TRUE, TRUE, FALSE)
            ELSE done(s.eng, banksAfter(b, sizes, d, ubc), 0, "reply", rxd,
                      s.frame, 0, d.h.ubm, FALSE, FALSE)

\* ------------------------------------------------------------- inputs
sizes == [DO |-> DO_u8size, DI |-> DI_u8size, AI |-> AI_u8size, AO |-> AO_u8size]

tg(id, fct, add, n) ==
  [u8id |-> id, u8fct |-> fct, u16RegAdd |-> add, u16CoilsNo |-> n]

\* the telegrams the master application passes to query(); the last write
\* asks for one register more than a frame of MAX_BUFFER bytes can carry
Telegrams ==
  { tg(SlaveId, MB_FC_READ_REGISTERS, 1, 2),
    tg(SlaveId, MB_FC_READ_INPUT_REGISTER, 0, AI_u8size),
    tg(SlaveId, MB_FC_READ_REGISTERS, AO_u8size, 1),
    tg(SlaveId, MB_FC_WRITE_MULTIPLE_REGISTERS, 1, 2),
    tg(SlaveId, MB_FC_WRITE_MULTIPLE_REGISTERS, 0, ((MAX_BUFFER - 9) \div 2) + 1),
    tg(0, MB_FC_READ_REGISTERS, 0, 1) }

\* the writing telegrams the master application passes to query(); the last
\* two name no slave
WriteTelegrams ==
  { tg(SlaveId, MB_FC_WRITE_COIL, 1, 1),
    tg(SlaveId, MB_FC_WRITE_REGISTER, 2, 1),
    tg(SlaveId, MB_FC_WRITE_MULTIPLE_COILS, 0, 2),
    tg(SlaveId, MB_FC_WRITE_MULTIPLE_REGISTERS, 1, 2),
    tg(0, MB_FC_WRITE_REGISTER, 2, 1),
    tg(248, MB_FC_WRITE_REGISTER, 2, 1) }

\* what the application writes to its image before a writing query
ImgPattern == [i \in 0..(ImgLen - 1) |-> (2561 + (257 * i)) % 65536]

ZeroImage == [i \in 0..(ImgLen - 1) |-> 0]

isWriteFct(fct) ==
  fct \in {MB_FC_WRITE_COIL, MB_FC_WRITE_REGISTER, MB_FC_WRITE_MULTIPLE_COILS,
           MB_FC_WRITE_MULTIPLE_REGISTERS}

\* the initial contents of the slave application's banks
InitBanks ==
  [DO |-> [i \in 0..(DO_u8size - 1) |-> i % 2 = 0],
   DI |-> [i \in 0..(DI_u8size - 1) |-> i % 2 = 1],
   AI |-> [i \in 0..(AI_u8size - 1) |-> 4660 + i],
   AO |-> [i \in 0..(AO_u8size - 1) |-> (44609 + (4369 * i)) % 65536]]

\* bytes as a buffer image, and bytes followed by their CRC in the order
\* sendTxBuffer appends it: a frame as a correct sender puts it on the line
asBuffer(bytes) == [i \in 0..(Len(bytes) - 1) |-> bytes[i + 1]]

withCRC(bytes) ==
  LET u16crc == calcCRC(asBuffer(bytes), Len(bytes))
  IN  bytes \o <<u16crc \div 256, u16crc % 256>>

\* the byte count and the data bytes a request of function fct for n items
\* carries after its first six bytes (at most two data bytes are sent)
reqData(fct, n) ==
  CASE fct = MB_FC_WRITE_MULTIPLE_REGISTERS -> <<U8(2 * n), 18, 52>>
    [] fct = MB_FC_WRITE_MULTIPLE_COILS
         -> IF n <= 8 THEN <<U8((n + 7) \div 8), 165>>
            ELSE <<U8((n + 7) \div 8), 165, 165>>
    [] OTHER -> <<>>

\* a request as a master puts it on the line
request(id, fct, add, n) ==
  withCRC(<<id, fct, highByte(add), lowByte(add), highByte(n), lowByte(n)>>
          \o reqData(fct, n))

\* the last byte of the frame is received with bit 0 flipped
damaged(frame) == [frame EXCEPT ![Len(frame)] = xorByte[@][1]]

\* the frame is received without its last two bytes
truncated(frame) == SubSeq(frame, 1, Len(frame) - 2)

ReqStarts == {0, 1, DO_u8size, AO_u8size - 1, AO_u8size, 255, 256}

ReqQtys == {1, 2, DO_u8size - 1, DO_u8size, AO_u8size, 255, 256}

\* the value fields of the requests of function 5: on, off, and two values
\* that are neither
CoilValues == {65280, 0, 255, 65535}

\* the requests a slave is tried with: every supported function over the
\* start addresses and quantities above, every function byte, requests of
\* function 5 over CoilValues, requests addressed to all nodes (0) and to
\* another node, and requests that are received damaged or truncated
Requests ==
  UNION { { request(SlaveId, fctsupported[k], a, n) :
              a \in ReqStarts, n \in ReqQtys } :
          k \in 1..Len(fctsupported) }
  \cup { request(SlaveId, fct, 0, 1) : fct \in 0..255 }
  \cup { request(SlaveId, MB_FC_WRITE_COIL, a, v) :
           a \in {0, 1, DO_u8size}, v \in CoilValues }
  \cup { damaged(request(SlaveId, fct, 1, 1)) :
           fct \in {MB_FC_READ_REGISTERS, MB_FC_WRITE_REGISTER,
                    MB_FC_WRITE_MULTIPLE_REGISTERS} }
  \cup { truncated(request(SlaveId, fct, 1, 1)) :
           fct \in {MB_FC_READ_REGISTERS, MB_FC_WRITE_MULTIPLE_REGISTERS} }
  \cup { request(id, fct, 1, 1) :
           id \in {0, OtherId},
           fct \in {MB_FC_READ_REGISTERS, MB_FC_WRITE_REGISTER,
                    MB_FC_WRITE_MULTIPLE_REGISTERS} }

\* a request of function 16 for another node whose eight data bytes are a
\* request of function 6 for this node
nestedRequest ==
  withCRC(<<OtherId, MB_FC_WRITE_MULTIPLE_REGISTERS, 0, 0, 0, 4, 8>>
          \o request(SlaveId, MB_FC_WRITE_REGISTER, 1, 3))

\* a request of function 16 for this node with as many registers as the
\* master's longest telegram: a frame of more than MAX_BUFFER bytes
longRequest ==
  LET n == ((MAX_BUFFER - 9) \div 2) + 1
  IN  withCRC(<<SlaveId, MB_FC_WRITE_MULTIPLE_REGISTERS, 0, 0, 0, n, 2 * n>>
              \o [i \in 1..(2 * n) |-> i])

\* the frames a slave in byte-by-byte mode is tried with: requests for this
\* node, for all nodes and for another node, one of them received damaged
IrqFrames ==
  { request(SlaveId, fct, 1, 1) :
      fct \in {MB_FC_READ_COILS, MB_FC_READ_REGISTERS, MB_FC_WRITE_COIL,
               MB_FC_WRITE_REGISTER, MB_FC_DIAGNOSTIC, MB_FC_WRITE_MULTIPLE_COILS,
               MB_FC_WRITE_MULTIPLE_REGISTERS, 7} }
  \cup { request(SlaveId, MB_FC_DIAGNOSTIC, 0, 0),
         request(SlaveId, MB_FC_READ_REGISTERS, AO_u8size, 1),
         damaged(request(SlaveId, MB_FC_WRITE_REGISTER, 1, 1)),
         request(0, MB_FC_WRITE_REGISTER, 1, 1),
         request(OtherId, MB_FC_WRITE_REGISTER, 1, 1),
         request(OtherId, MB_FC_READ_REGISTERS, SlaveId, 1),
         nestedRequest,
         longRequest }

\* the reading telegrams of a master on a bus with slaves of any make
ReplyTelegrams ==
  { tg(SlaveId, MB_FC_READ_REGISTERS, 1, 2),
    tg(SlaveId, MB_FC_READ_COILS, 0, 2) }

\* the frames with a correct CRC such a bus carries to the master: the
\* replies of a correct slave to ReplyTelegrams, replies with a byte count
\* above what was asked for or above what the frame holds, and replies of
\* another slave and of another function
Replies ==
  { withCRC(<<SlaveId, MB_FC_READ_REGISTERS, 4, 1, 2, 3, 4>>),
    withCRC(<<SlaveId, MB_FC_READ_REGISTERS, 6, 1, 2, 3, 4, 5, 6>>),
    withCRC(<<SlaveId, MB_FC_READ_REGISTERS, 8, 1, 2, 3, 4>>),
    withCRC(<<SlaveId, MB_FC_READ_COILS, 1, 3>>),
    withCRC(<<SlaveId, MB_FC_READ_COILS, 3, 3, 1, 1>>),
    withCRC(<<OtherId, MB_FC_READ_REGISTERS, 4, 1, 2, 3, 4>>),
    withCRC(<<SlaveId, MB_FC_READ_INPUT_REGISTER, 4, 1, 2, 3, 4>>) }

\* values an uninitialised u8state can hold
UninitStates == {COM_IDLE, COM_WAITING}

\* values an uninitialised u8lastError can hold
UninitErrors == {0, NO_REPLY}

\* milliseconds between the (zero) initial timestamps and the first call
BootAges == {0, TimeOutCap}

\* -------------------------------------------------------------- state
VARIABLES
  master,    \* the master's Modbus object (u8id = 0)
  slave,     \* the slave's Modbus object (u8id = SlaveId)
  au16data,  \* the master application's data image
  banks,     \* the slave application's banks DO, DI, AI, AO
  mRx,       \* the master port's receive FIFO
  sRx,       \* the slave port's receive FIFO
  lineM,     \* bytes on the line towards the master
  lineS,     \* bytes on the line towards the slave
  qry,       \* the last telegram query() accepted, its image and its bytes
  rsp,       \* the last request the slave answered, and its answer
  step,      \* the step just taken, with the result of the call it made
  ubMem,     \* a bank or the image has been accessed out of range
  hung       \* the slave is in a handler loop that never ends

vars == <<master, slave, au16data, banks, mRx, sRx, lineM, lineS, qry, rsp,
          step, ubMem, hung>>

\* a step that made no call
Plain(op) ==
  [op |-> op, ret |-> 0, path |-> "none", rxd |-> <<>>, tx |-> <<>>, exc |-> -1]

\* a step in which bytes entered the receive FIFO fifo
Arrival(fifo) == [Plain("env") EXCEPT !.path = fifo]

Saturated(age, cap) == IF age > cap THEN cap ELSE age

Booted(id, st, err, age) ==
  [Engine(id, st, err, age) EXCEPT !.timeOutAge = Saturated(age, TimeOutCap),
                                   !.timeAge = Saturated(age, TimeCap)]

Init ==
  /\ \E st \in UninitStates, err \in UninitErrors, age \in BootAges :
       master = Booted(0, st, err, age)
  /\ slave = Booted(SlaveId, COM_IDLE, 0, 0)
  /\ au16data = ZeroImage
  /\ banks = InitBanks
  /\ mRx = <<>> /\ sRx = <<>> /\ lineM = <<>> /\ lineS = <<>>
  /\ qry = [telegram |-> tg(0, 0, 0, 0), frame |-> <<>>, img |-> ZeroImage]
  /\ rsp = [rxd |-> <<>>, tx |-> <<>>]
  /\ step = Plain("init")
  /\ ubMem = FALSE
  /\ hung = FALSE

\* ------------------------------------------------------------- actions
\* the master application calls query(t, au16data), having filled the image
\* when t is a writing telegram; it does so when the slave has taken the
\* request before
QueryUpTo(t, n) ==
  /\ queryRefusal(master, t) # 0 \/ master.u16OutCnt < n
  /\ lineS = <<>> /\ sRx = <<>>
  /\ \E img \in {IF isWriteFct(t.u8fct) THEN ImgPattern ELSE au16data} :
       \E q \in {query(master, t, img, ubc) : ubc \in UbChoices} :
         /\ master' = q.eng
         /\ au16data' = img
         /\ mRx' = IF q.sent THEN <<>> ELSE mRx
         /\ lineS' = lineS \o q.frame
         /\ qry' = IF q.sent
                   THEN [telegram |-> t, frame |-> q.frame, img |-> img] ELSE qry
         /\ step' = [Plain("query") EXCEPT !.ret = q.ret, !.tx = q.frame]
  /\ UNCHANGED <<slave, banks, sRx, lineM, rsp, ubMem, hung>>

\* the master application sends at most MaxCnt queries
Query(t) == QueryUpTo(t, MaxCnt)

\* the slave application calls query(t, AO) on its own object
SlaveQuery(t) ==
  /\ \E q \in {query(slave, t, banks.AO, ubc) : ubc \in UbChoices} :
       /\ slave' = q.eng
       /\ lineM' = lineM \o q.frame
       /\ step' = [Plain("squery") EXCEPT !.ret = q.ret, !.tx = q.frame]
  /\ UNCHANGED <<master, au16data, banks, mRx, sRx, lineS, qry, rsp, ubMem, hung>>

\* the master application calls poll(); an idle master whose reply time-out
\* has passed counts one more error at every call, up to MaxCnt
MasterPoll ==
  /\ \E r \in {pollMaster(master, mRx, au16data, ubc) : ubc \in UbChoices} :
       /\ master.u8state = COM_WAITING \/ r.eng.u16errCnt <= MaxCnt
       /\ master' = r.eng
       /\ mRx' = r.rx
       /\ au16data' = r.img
       /\ step' = [Plain("mpoll") EXCEPT !.ret = r.ret, !.path = r.path, !.rxd = r.rxd]
       /\ ubMem' = (ubMem \/ r.ubm)
  /\ UNCHANGED <<slave, banks, sRx, lineM, lineS, qry, rsp, hung>>

\* the slave application calls poll(DO, DI, AI, AO, sizes)
SlavePoll ==
  /\ ~hung
  /\ \E r \in {pollSlave(slave, sRx, banks, sizes, ubc) : ubc \in UbChoices} :
       /\ slave' = r.eng
       /\ sRx' = r.rx
       /\ banks' = r.banks
       /\ lineM' = lineM \o r.tx
       /\ rsp' = IF r.tx # <<>> THEN [rxd |-> r.rxd, tx |-> r.tx] ELSE rsp
       /\ step' = [op |-> "spoll", ret |-> r.ret, path |-> r.path, rxd |-> r.rxd,
                   tx |-> r.tx, exc |-> r.exc]
       /\ ubMem' = (ubMem \/ r.ubm)
       /\ hung' = r.hang
  /\ UNCHANGED <<master, au16data, mRx, lineS, qry>>

Older(age, cap) == Saturated(age + T35, cap)

\* T35 milliseconds pass
Tick ==
  /\ master' = [master EXCEPT !.timeOutAge = Older(@, TimeOutCap),
                              !.timeAge = Older(@, TimeCap)]
  /\ slave' = [slave EXCEPT !.timeAge = Older(@, TimeCap)]
  /\ step' = Plain("env")
  /\ UNCHANGED <<au16data, banks, mRx, sRx, lineM, lineS, qry, rsp, ubMem, hung>>

\* the bytes on the line reach the slave port's FIFO
DeliverS ==
  /\ lineS # <<>>
  /\ sRx' = sRx \o lineS
  /\ lineS' = <<>>
  /\ step' = Arrival("sRx")
  /\ UNCHANGED <<master, slave, au16data, banks, mRx, lineM, qry, rsp, ubMem, hung>>

\* how many bytes of line arrive together: all of them, or, when none of
\* the reply has arrived yet, a first piece
Pieces(line) == {Len(line)} \cup {k \in {ChunkLen} : k < Len(line) /\ line = rsp.tx}

First(line, k) == SubSeq(line, 1, k)

Rest(line, k) == SubSeq(line, k + 1, Len(line))

\* bytes on the line reach the master port's FIFO
DeliverM ==
  /\ lineM # <<>>
  /\ \E k \in Pieces(lineM) :
       /\ mRx' = mRx \o First(lineM, k)
       /\ lineM' = Rest(lineM, k)
  /\ step' = Arrival("mRx")
  /\ UNCHANGED <<master, slave, au16data, banks, sRx, lineS, qry, rsp, ubMem, hung>>

\* the byte poll_IRQ_HAL finds in the receive data register: the slave's
\* application calls it for every byte received (a call with no byte
\* received returns at once and changes nothing).  After restart() the
\* program starts again.
SlaveIrq ==
  /\ ~hung
  /\ lineS # <<>>
  /\ \E r \in {pollIrqHal(slave, Head(lineS), banks, sizes, ubc) : ubc \in UbChoices} :
       /\ slave' = IF r.restart THEN Booted(SlaveId, COM_IDLE, 0, 0) ELSE r.eng
       /\ banks' = IF r.restart THEN InitBanks ELSE r.banks
       /\ lineS' = Tail(lineS)
       /\ lineM' = lineM \o r.tx
       /\ rsp' = IF r.tx # <<>> THEN [rxd |-> r.rxd, tx |-> r.tx] ELSE rsp
       /\ step' = [op |-> "irq", ret |-> r.ret, path |-> r.path, rxd |-> r.rxd,
                   tx |-> r.tx, exc |-> r.exc]
       /\ ubMem' = (ubMem \/ r.ubm)
       /\ hung' = r.hang
  /\ UNCHANGED <<master, au16data, mRx, sRx, qry>>

\* more than T35 milliseconds pass with no byte on the line
Silence ==
  /\ slave.timeAge < IrqTimeCap
  /\ slave' = [slave EXCEPT !.timeAge = IrqTimeCap]
  /\ step' = Plain("env")
  /\ UNCHANGED <<master, au16data, banks, mRx, sRx, lineM, lineS, qry, rsp, ubMem, hung>>

\* a slave on the bus transmits the frame f, whole, towards the master
Answer(f) ==
  /\ lineM = <<>> /\ mRx = <<>>
  /\ master.u16InCnt < MaxCnt
  /\ lineM' = f
  /\ rsp' = [rxd |-> qry.frame, tx |-> f]
  /\ step' = Plain("env")
  /\ UNCHANGED <<master, slave, au16data, banks, mRx, sRx, lineS, qry, ubMem, hung>>

\* the last byte on the line is received with bit 0 flipped
flipLast(line) == [line EXCEPT ![Len(line)] = xorByte[@][1]]

\* the line damages the reply it carries
Noise ==
  /\ lineM # <<>>
  /\ lineM = rsp.tx
  /\ lineM' = flipLast(lineM)
  /\ step' = Plain("env")
  /\ UNCHANGED <<master, slave, au16data, banks, mRx, sRx, lineS, qry, rsp, ubMem, hung>>

\* ------------------------------------------------------ specifications
\* a master and a slave on one line
Next ==
  \/ \E t \in Telegrams : Query(t)
  \/ MasterPoll
  \/ SlavePoll
  \/ Tick
  \/ DeliverS
  \/ DeliverM
  \/ Noise

Spec == Init /\ [][Next]_vars

\* the master application polls again and again, and the clock advances
FairSpec == Spec /\ WF_vars(Tick) /\ WF_vars(MasterPoll)

\* a master that sends writing telegrams and a slave on one line; the
\* slave application calls query() too
WriteNext ==
  \/ \E t \in WriteTelegrams : Query(t)
  \/ \E t \in WriteTelegrams : SlaveQuery(t)
  \/ MasterPoll
  \/ SlavePoll
  \/ Tick
  \/ DeliverS
  \/ DeliverM
  \/ Noise

WriteSpec == Init /\ [][WriteNext]_vars

\* the telegrams a master application sends again after a time-out: a read
\* of two registers, and a write of all coils of the slave but the last
RetryTelegrams ==
  { tg(SlaveId, MB_FC_READ_REGISTERS, 1, 2),
    tg(SlaveId, MB_FC_WRITE_MULTIPLE_COILS, 0, DO_u8size - 1) }

\* a master that asks again after a time-out, and a slave, on one line
RetryNext ==
  \/ \E t \in RetryTelegrams : QueryUpTo(t, MaxQueries)
  \/ MasterPoll
  \/ SlavePoll
  \/ Tick
  \/ DeliverS
  \/ DeliverM

RetrySpec == Init /\ [][RetryNext]_vars

\* a master on a bus with slaves of any make
ReplyNext ==
  \/ \E t \in ReplyTelegrams : Query(t)
  \/ \E f \in Replies : Answer(f)
  \/ DeliverM
  \/ MasterPoll
  \/ Tick

ReplySpec == Init /\ [][ReplyNext]_vars

\* a slave that receives one request out of Requests from some master
SlaveInit ==
  /\ master = Booted(0, COM_IDLE, 0, TimeOutCap)
  /\ slave = Booted(SlaveId, COM_IDLE, 0, 0)
  /\ au16data = ZeroImage
  /\ banks = InitBanks
  /\ mRx = <<>> /\ sRx = <<>> /\ lineM = <<>>
  /\ lineS \in Requests
  /\ qry = [telegram |-> tg(0, 0, 0, 0), frame |-> <<>>, img |-> ZeroImage]
  /\ rsp = [rxd |-> <<>>, tx |-> <<>>]
  /\ step = Plain("init")
  /\ ubMem = FALSE
  /\ hung = FALSE

SlaveNext == DeliverS \/ Tick \/ SlavePoll

SlaveSpec == SlaveInit /\ [][SlaveNext]_vars

\* a slave in byte-by-byte mode on a bus that carries one frame out of
\* IrqFrames, qry.frame
IrqInit ==
  /\ master = Booted(0, COM_IDLE, 0, TimeOutCap)
  /\ slave = Booted(SlaveId, COM_IDLE, 0, 0)
  /\ au16data = ZeroImage
  /\ banks = InitBanks
  /\ mRx = <<>> /\ sRx = <<>> /\ lineM = <<>>
  /\ lineS \in IrqFrames
  /\ qry = [telegram |-> tg(0, 0, 0, 0), frame |-> lineS, img |-> ZeroImage]
  /\ rsp = [rxd |-> <<>>, tx |-> <<>>]
  /\ step = Plain("init")
  /\ ubMem = FALSE
  /\ hung = FALSE

IrqNext == SlaveIrq \/ Silence

IrqSpec == IrqInit /\ [][IrqNext]_vars

\* --------------------------------------------------------------- claims
\* frame ends with the CRC-16 of its other bytes, low byte first
crcOk(frame) ==
  /\ Len(frame) >= 3
  /\ frame = withCRC(SubSeq(frame, 1, Len(frame) - 2))

\* polls of the master that neither move a frame out of the FIFO nor find
\* the reply time-out passed
QuietPaths == {"empty", "count", "t35"}

\* C1: query() returns 0 only when the master is Idle, the master is
\* WaitingReply right after, and it stays WaitingReply over every step but a
\* poll() that drains a received frame or finds the reply time-out passed.
C1_QueryOnlyWhenIdle ==
  [][ /\ (step'.op = "query" /\ step'.ret = 0)
           => (master.u8state = COM_IDLE /\ master'.u8state = COM_WAITING)
      /\ (step'.op = "mpoll" /\ master.u8state = COM_WAITING
            /\ step'.path \in QuietPaths)
           => master'.u8state = COM_WAITING
      /\ (step'.op \notin {"query", "mpoll"})
           => master'.u8state = master.u8state ]_vars

\* a master that sent a query is polled before the reply is complete and
\* is still waiting
C1_Witness ==
  /\ step.op = "mpoll" /\ step.path \in QuietPaths
  /\ master.u16OutCnt = 1 /\ master.u8state = COM_WAITING

\* C2: when poll() is called again and again and the clock advances, a
\* master in WaitingReply is eventually Idle, whatever arrives on the line.
C2_WaitingLeadsToIdle ==
  (master.u8state = COM_WAITING) ~> (master.u8state = COM_IDLE)

\* a waiting master has become idle on a damaged reply
C2_Witness ==
  /\ step.op = "mpoll" /\ step.path = "invalid"
  /\ master.u16OutCnt = 1 /\ master.u8state = COM_IDLE

\* C3: with no byte received, a poll() of a waiting master made while the
\* time since the transmission does not exceed the time-out leaves u8state,
\* u8lastError and u16errCnt as they are; made once it exceeds the time-out
\* it sets Idle and NO_REPLY and adds exactly 1 to u16errCnt.
C3_ReplyTimeOut ==
  [][ (step'.op = "mpoll" /\ master.u8state = COM_WAITING /\ mRx = <<>>)
        => IF master.timeOutAge <= master.u16timeOut
           THEN /\ master'.u8state = master.u8state
                /\ master'.u8lastError = master.u8lastError
                /\ master'.u16errCnt = master.u16errCnt
           ELSE /\ master'.u8state = COM_IDLE
                /\ master'.u8lastError = NO_REPLY
                /\ master'.u16errCnt = master.u16errCnt + 1 ]_vars

\* the poll that found the time-out of the one query passed, nothing received
C3_Witness ==
  /\ step.op = "mpoll" /\ step.path = "timeout"
  /\ master.u16OutCnt = 1 /\ master.u16InCnt = 0
  /\ master.u8state = COM_IDLE /\ master.u8lastError = NO_REPLY
  /\ master.u16errCnt = 1

\* C4: every frame either role transmits ends with the CRC-16 of the bytes
\* before it, low byte first.
C4_FramesEndWithCRC == step.tx # <<>> => crcOk(step.tx)

\* C5: a query of function 3 or 4 for N >= 1 registers from start, within
\* the slave's bank and with a reply that fits the buffer, answered by the
\* slave and the answer received whole: the image holds the slave's
\* registers start..start+N-1, the master is Idle and u8lastError is 0.
C5_ReadRoundTrip ==
  LET t    == qry.telegram
      bank == IF t.u8fct = MB_FC_READ_REGISTERS THEN banks.AO ELSE banks.AI
      size == IF t.u8fct = MB_FC_READ_REGISTERS THEN AO_u8size ELSE AI_u8size
  IN  ( /\ step.op = "mpoll"
        /\ t.u8fct \in {MB_FC_READ_REGISTERS, MB_FC_READ_INPUT_REGISTER}
        /\ t.u16CoilsNo >= 1
        /\ t.u16RegAdd + t.u16CoilsNo <= size
        /\ 5 + 2 * t.u16CoilsNo <= MAX_BUFFER
        /\ rsp.rxd = qry.frame
        /\ step.rxd = rsp.tx )
      => /\ \A i \in 0..(t.u16CoilsNo - 1) : au16data[i] = bank[t.u16RegAdd + i]
         /\ master.u8state = COM_IDLE
         /\ master.u8lastError = 0

\* the master has taken the reply to its query for holding registers 1 and 2
C5_Witness ==
  /\ step.op = "mpoll" /\ step.rxd = rsp.tx /\ rsp.rxd = qry.frame
  /\ qry.telegram = tg(SlaveId, MB_FC_READ_REGISTERS, 1, 2)
  /\ au16data[0] = InitBanks.AO[1] /\ au16data[1] = InitBanks.AO[2]

\* C6: a query of function 16 for N >= 1 registers from start with the
\* image words v, received unchanged by a slave with at least start+N holding
\* registers: after the slave's poll AO[start+i] = v[i], all else is
\* unchanged, and the reply is id, 16, start, 0, N and the CRC.
C6_WriteRegisters ==
  [][ LET t == qry.telegram IN
          ( /\ step'.op = "spoll"
            /\ t.u8fct = MB_FC_WRITE_MULTIPLE_REGISTERS
            /\ t.u16CoilsNo >= 1
            /\ t.u16RegAdd + t.u16CoilsNo <= AO_u8size
            /\ step'.rxd = qry.frame )
          => /\ banks' = [banks EXCEPT !.AO =
                   [i \in 0..(AO_u8size - 1) |->
                      IF i >= t.u16RegAdd /\ i < t.u16RegAdd + t.u16CoilsNo
                      THEN qry.img[i - t.u16RegAdd] ELSE banks.AO[i]]]
             /\ step'.tx = withCRC(<<slave.u8id, MB_FC_WRITE_MULTIPLE_REGISTERS,
                                     highByte(t.u16RegAdd), lowByte(t.u16RegAdd),
                                     0, t.u16CoilsNo>>) ]_vars

\* the function, start address and quantity fields of a request
reqFct(frame) == frame[FUNC + 1]

reqStart(frame) == frame[ADD_HI + 1] * 256 + frame[ADD_LO + 1]

reqQty(frame) == frame[NB_HI + 1] * 256 + frame[NB_LO + 1]

\* the highest coil or register index a request accesses
reqHighest(frame) ==
  IF reqFct(frame) \in {MB_FC_WRITE_COIL, MB_FC_WRITE_REGISTER}
  THEN reqStart(frame)
  ELSE reqStart(frame) + reqQty(frame) - 1

\* the size of the bank a function selects
bankSize(fct) ==
  CASE fct \in {MB_FC_READ_COILS, MB_FC_WRITE_COIL, MB_FC_WRITE_MULTIPLE_COILS}
         -> DO_u8size
    [] fct = MB_FC_READ_DISCRETE_INPUT -> DI_u8size
    [] fct = MB_FC_READ_INPUT_REGISTER -> AI_u8size
    [] OTHER -> AO_u8size

\* C7: for a request with a correct CRC, function 1, 2, 3, 4, 5, 6, 15 or
\* 16 and quantity >= 1, validateRequest returns EXC_ADDR_RANGE exactly when
\* the highest index accessed is not below the size of the bank, else 0.
C7_AddressRange ==
  ( /\ step.op = "spoll" /\ step.exc # -1
    /\ crcOk(step.rxd)
    /\ reqFct(step.rxd) \in {1, 2, 3, 4, 5, 6, 15, 16}
    /\ reqFct(step.rxd) \in {5, 6} \/ reqQty(step.rxd) >= 1 )
  => step.exc = IF reqHighest(step.rxd) >= bankSize(reqFct(step.rxd))
                THEN EXC_ADDR_RANGE ELSE 0

\* C8: an exception reply to a request with a correct CRC and any function
\* byte is 5 bytes: the slave's id, the function byte with bit 0x80 set, a
\* code in 1..4 and the CRC.
C8_ExceptionFrame ==
  (step.op = "spoll" /\ step.path = "exception")
  => /\ Len(step.tx) = 5
     /\ step.tx[1] = slave.u8id
     /\ step.tx[2] = BitOr(reqFct(step.rxd), 128)
     /\ step.tx[3] \in {EXC_FUNC_CODE, EXC_ADDR_RANGE, EXC_REGS_QUANT, EXC_EXECUTE}
     /\ crcOk(step.tx)

\* frame is a well-formed exception reply
isExceptionReply(frame) ==
  /\ Len(frame) = 5
  /\ frame[1] \in 1..247
  /\ frame[2] >= 128
  /\ crcOk(frame)

\* C9: a waiting master that receives a well-formed 5-byte exception reply:
\* poll() returns ERR_EXCEPTION and the master is Idle.
C9_ExceptionReply ==
  [][ ( /\ step'.op = "mpoll"
        /\ master.u8state = COM_WAITING
        /\ isExceptionReply(step'.rxd) )
      => (step'.ret = ERR_EXCEPTION /\ master'.u8state = COM_IDLE) ]_vars

readdressed(frame, id) ==
  withCRC(<<id>> \o SubSeq(frame, 2, Len(frame) - 2))

\* the frame is a write request (function 5, 6, 15 or 16) with a correct CRC
isWriteRequest(frame) ==
  /\ Len(frame) >= 8
  /\ crcOk(frame)
  /\ isWriteFct(reqFct(frame))

\* C11: a write request (function 5, 6, 15 or 16) with a correct CRC and
\* address byte 0 that the slave takes from its port leaves the banks as the
\* same request sent to the slave's own id leaves them.
C11_BroadcastWrite ==
  [][ ( /\ step'.op = "spoll"
        /\ isWriteRequest(step'.rxd)
        /\ step'.rxd[1] = 0 )
      => \A ubc \in UbChoices :
           banks' = pollSlave(slave, readdressed(step'.rxd, slave.u8id),
                              banks, sizes, ubc).banks ]_vars

\* C12: a frame on the bus whose address byte is neither the slave's id nor
\* 0 never makes the slave transmit or change a coil or a register, in
\* polled mode and in byte-by-byte mode, whatever its other bytes are.
C12_ForeignFrameIgnored ==
  /\ (step.op = "spoll" /\ step.rxd # <<>> /\ step.rxd[1] \notin {slave.u8id, 0})
       => (step.tx = <<>> /\ banks = InitBanks)
  /\ (step.op = "irq" /\ qry.frame[1] \notin {slave.u8id, 0})
       => (lineM = <<>> /\ banks = InitBanks)

\* C13: the reply to a write request (function 5, 6, 15 or 16) sent to the
\* slave's own id that validateRequest accepts is 8 bytes: the first six
\* bytes of the request and their CRC.
C13_WriteEcho ==
  ( /\ step.op \in {"spoll", "irq"}
    /\ step.exc = 0
    /\ step.rxd[1] = slave.u8id
    /\ isWriteFct(reqFct(step.rxd)) )
  => step.tx = withCRC(SubSeq(step.rxd, 1, 6))

\* the banks a request of function fct reads or writes
bankOf(fct) ==
  CASE fct \in {MB_FC_READ_COILS, MB_FC_WRITE_COIL, MB_FC_WRITE_MULTIPLE_COILS}
         -> "DO"
    [] fct = MB_FC_READ_DISCRETE_INPUT -> "DI"
    [] fct = MB_FC_READ_INPUT_REGISTER -> "AI"
    [] OTHER -> "AO"

\* bit k of the byte x
bitOf(x, k) == (x \div Pow2(k)) % 2

\* ceil(n / 8)
bytesFor(n) == (n + 7) \div 8

\* C14: the reply to a request of function 1 or 2 for N >= 1 coils from
\* start, within the bank, that validateRequest accepts is id, function,
\* ceil(N/8), that many payload bytes and the CRC, and bit (i mod 8) of
\* payload byte (i div 8) is bank[start+i] for every i < N, whatever the
\* address and quantity bytes of the request are.
C14_ReadCoils ==
  LET f     == step.rxd
      bank  == banks[bankOf(reqFct(f))]
      start == reqStart(f)
      n     == reqQty(f)
  IN  ( /\ step.op \in {"spoll", "irq"}
        /\ step.exc = 0
        /\ reqFct(f) \in {MB_FC_READ_COILS, MB_FC_READ_DISCRETE_INPUT}
        /\ n >= 1
        /\ start + n <= bankSize(reqFct(f)) )
      => /\ Len(step.tx) = 3 + bytesFor(n) + 2
         /\ step.tx[1] = slave.u8id
         /\ step.tx[2] = reqFct(f)
         /\ step.tx[3] = bytesFor(n)
         /\ crcOk(step.tx)
         /\ \A i \in 0..(n - 1) :
              bitOf(step.tx[4 + (i \div 8)], i % 8) = IF bank[start + i] THEN 1 ELSE 0

\* C15: a request of function 15 for N >= 1 coils from start, within the
\* bank and carrying its ceil(N/8) payload bytes from frame offset 7, that
\* validateRequest accepts: afterwards DO[start+i] is bit (i mod 8) of
\* payload byte (i div 8) for every i < N, and all else is unchanged.
C15_WriteCoils ==
  [][ LET f     == step'.rxd
          start == reqStart(f)
          n     == reqQty(f)
      IN  ( /\ step'.op \in {"spoll", "irq"}
            /\ step'.exc = 0
            /\ reqFct(f) = MB_FC_WRITE_MULTIPLE_COILS
            /\ n >= 1
            /\ start + n <= DO_u8size
            /\ Len(f) = 7 + bytesFor(n) + 2 )
          => banks' = [banks EXCEPT !.DO =
               [i \in 0..(DO_u8size - 1) |->
                  IF i >= start /\ i < start + n
                  THEN bitOf(f[8 + ((i - start) \div 8)], (i - start) % 8) = 1
                  ELSE banks.DO[i]]] ]_vars

\* C16: a request of function 5 for coil address a that validateRequest
\* accepts: afterwards DO[a] is true when the value high byte (frame offset
\* 4) is 0xFF and false for every other value, and every other coil and
\* every register is as before.
C16_WriteCoil ==
  [][ LET f == step'.rxd
          a == reqStart(f)
      IN  ( /\ step'.op \in {"spoll", "irq"}
            /\ step'.exc = 0
            /\ reqFct(f) = MB_FC_WRITE_COIL )
          => /\ a < DO_u8size
             /\ banks' = [banks EXCEPT !.DO[a] = (f[NB_HI + 1] = 255)]
             /\ ubMem' = ubMem ]_vars

\* C17: when the master's poll() accepts the reply to its query of function
\* 5 or 6, the image word 0 becomes the big-endian word at reply offsets 4
\* and 5 and no other image word changes; when it accepts the reply to its
\* query of function 15 or 16, no image word changes.
C17_WriteReplyImage ==
  [][ LET f == step'.rxd
      IN  ( /\ step'.op = "mpoll"
            /\ step'.path = "ok"
            /\ qry.telegram.u8fct = f[FUNC + 1] )
          => /\ f[FUNC + 1] \in {MB_FC_WRITE_COIL, MB_FC_WRITE_REGISTER}
                  => au16data' = [au16data EXCEPT ![0] = (f[5] * 256) + f[6]]
             /\ f[FUNC + 1] \in {MB_FC_WRITE_MULTIPLE_COILS,
                                 MB_FC_WRITE_MULTIPLE_REGISTERS}
                  => au16data' = au16data ]_vars

\* the master has taken the reply to its query of function 5: image word 0
\* holds the echoed FF00, image word 1 what the application had put there
C17_Witness ==
  /\ step.op = "mpoll" /\ step.path = "ok"
  /\ qry.telegram.u8fct = MB_FC_WRITE_COIL
  /\ step.rxd = rsp.tx /\ step.rxd[FUNC + 1] = MB_FC_WRITE_COIL
  /\ au16data[0] = 65280 /\ au16data[1] = ImgPattern[1]

\* C18: when the slave takes a frame that carries its id and whose last two
\* bytes are not the CRC of the bytes before them, u16errCnt goes up by
\* exactly 1, nothing is transmitted and no coil or register changes.
C18_BadCrcRequest ==
  [][ ( /\ step'.op = "spoll"
        /\ Len(step'.rxd) >= 4
        /\ step'.rxd[1] = slave.u8id
        /\ ~crcOk(step'.rxd) )
      => /\ slave'.u16errCnt = slave.u16errCnt + 1
         /\ step'.tx = <<>>
         /\ banks' = banks ]_vars

\* C19: when the master's poll() drains a reply of at least 6 bytes whose
\* last two bytes are not the CRC of the bytes before them, the value it
\* returns is NO_REPLY = 255, which is not ERR_NOT_MASTER = -1, u16errCnt
\* goes up by 1, the image is unchanged and nothing is transmitted.
C19_BadCrcReply ==
  [][ ( /\ step'.op = "mpoll"
        /\ Len(step'.rxd) >= 6
        /\ ~crcOk(step'.rxd) )
      => /\ step'.ret = NO_REPLY
         /\ step'.ret # ERR_NOT_MASTER
         /\ master'.u16errCnt = master.u16errCnt + 1
         /\ au16data' = au16data
         /\ step'.tx = <<>> ]_vars

\* C20: query() called on a slave object (u8id # 0) returns ERR_NOT_MASTER
\* = -1, and query() called on a master that is still WaitingReply returns
\* ERR_POLLING = -2.
C20_QueryRefusals ==
  [][ /\ step'.op = "squery" => step'.ret = ERR_NOT_MASTER
      /\ (step'.op = "query" /\ master.u8state = COM_WAITING)
           => step'.ret = ERR_POLLING ]_vars

\* what a refused query() leaves alone in the object: u8state, u8lastError,
\* the counters and the frame buffer
untouched(e1, e2) ==
  /\ e2.u8state = e1.u8state
  /\ e2.u8lastError = e1.u8lastError
  /\ e2.u16InCnt = e1.u16InCnt
  /\ e2.u16OutCnt = e1.u16OutCnt
  /\ e2.u16errCnt = e1.u16errCnt
  /\ e2.au8Buffer = e1.au8Buffer
  /\ e2.u8BufferSize = e1.u8BufferSize

\* query(t) on the object e, which is e2 afterwards: the result is -2 when e
\* is not a master, else -1 when it is not Idle, else -3 when t names slave 0
\* or one above 247, and then nothing is sent and e is untouched
refusedInOrder(e, e2, t) ==
  LET bad == IF e.u8id # 0 THEN -2
             ELSE IF e.u8state # COM_IDLE THEN -1
             ELSE IF t.u8id = 0 \/ t.u8id > 247 THEN -3
             ELSE 0
  IN  /\ bad # 0 => (step'.ret = bad /\ step'.tx = <<>> /\ untouched(e, e2))
      /\ bad = 0 => (step'.ret = 0 /\ step'.tx # <<>>)

C22_ReceiveOverflow ==
  [][ /\ (step'.op = "spoll" /\ Len(step'.rxd) >= MAX_BUFFER)
           => /\ slave'.oob = slave.oob
              /\ step'.ret = ERR_BUFF_OVERFLOW
              /\ slave'.u16errCnt = slave.u16errCnt + 1
      /\ (step'.op = "mpoll" /\ Len(step'.rxd) >= MAX_BUFFER)
           => /\ master'.oob = master.oob
              /\ step'.ret = ERR_BUFF_OVERFLOW
              /\ master'.u16errCnt = master.u16errCnt + 1
      /\ (step'.op = "irq" /\ slave.u8current = MAX_BUFFER - 1
            /\ slave.timeAge <= T35 /\ step'.path # "foreign")
           => /\ slave'.oob = slave.oob
              /\ slave'.u8current = 0
              /\ step'.ret = ERR_BUFF_OVERFLOW
              /\ slave'.u16errCnt = slave.u16errCnt + 1 ]_vars

\* C23: every frame built for transmission, a query for a telegram that
\* query() accepts and a reply to a request that validateRequest accepts,
\* takes at most MAX_BUFFER bytes with its CRC, and building and sending it
\* writes no frame buffer index >= MAX_BUFFER.
C23_FrameFitsBuffer ==
  [][ /\ (step'.op = "query" /\ step'.ret = 0)
           => (Len(step'.tx) <= MAX_BUFFER /\ master'.oob = master.oob)
      /\ (step'.op \in {"spoll", "irq"} /\ step'.exc = 0 /\ step'.tx # <<>>)
           => (Len(step'.tx) <= MAX_BUFFER /\ slave'.oob = slave.oob) ]_vars

\* the slave's valid reply to the master's query lies whole in the master's
\* FIFO, and the master's reply time-out has passed
lateReply ==
  /\ mRx # <<>> /\ mRx = rsp.tx /\ rsp.rxd = qry.frame
  /\ Len(mRx) >= 6 /\ crcOk(mRx)
  /\ master.timeOutAge > master.u16timeOut

malformed(frame) ==
  \/ Len(frame) < 7
  \/ Len(frame) >= MAX_BUFFER
  \/ ~crcOk(frame)

\* C25: u16errCnt of an object changes in a step exactly when that step's
\* poll() has taken a malformed frame out of the FIFO; the master's reply
\* time-out, an exception reply and a request answered with an exception do
\* not change it.
C25_ErrCountOnMalformed ==
  [][ /\ master'.u16errCnt # master.u16errCnt
           <=> (step'.op = "mpoll" /\ step'.rxd # <<>> /\ malformed(step'.rxd))
      /\ slave'.u16errCnt # slave.u16errCnt
           <=> (step'.op = "spoll" /\ step'.rxd # <<>> /\ malformed(step'.rxd)) ]_vars

\* C26: the slave's poll() returns 0 when it has processed no request,
\* the exception code 1..4 when the request was answered with an exception,
\* and the length of the reply with its CRC, above 4, when a correct request
\* was processed and answered.
C26_SlavePollResult ==
  step.op = "spoll" =>
    /\ step.path \in {"empty", "count", "t35", "foreign"} => step.ret = 0
    /\ step.path = "exception" => step.ret \in 1..4
    /\ step.path = "reply" => (step.ret > 4 /\ step.ret = Len(step.tx))

\* C27: in polled mode poll() moves bytes out of the receive FIFO only when
\* the FIFO holds some, their count is the count the preceding poll() saw,
\* and T35 has passed since that count was first seen; so poll() never takes
\* bytes that entered the FIFO since the preceding poll(), and never takes a
\* part of a reply whose other bytes are still on the line.
C27_DrainAfterSilence ==
  [][ /\ (step'.op = "mpoll" /\ step'.rxd # <<>>)
           => /\ mRx # <<>>
              /\ step # Arrival("mRx")
              /\ master.timeAge >= T35
      /\ (step'.op = "spoll" /\ step'.rxd # <<>>)
           => /\ sRx # <<>>
              /\ step # Arrival("sRx")
              /\ slave.timeAge >= T35 ]_vars

\* the bytes of the frame on the bus that the slave has received
received == Len(qry.frame) - Len(lineS)

\* the length at which a request is complete in byte-by-byte mode
completeAt(frame) ==
  IF frame[FUNC + 1] \in {MB_FC_WRITE_MULTIPLE_COILS, MB_FC_WRITE_MULTIPLE_REGISTERS}
  THEN frame[BYTE_CNT + 1] + 9 ELSE 8

\* the call of poll_IRQ_HAL in this step has passed the frame on to
\* validateRequest
dispatched(s) == s.path \in {"exception", "badcrc", "restart", "hang", "reply"}

C29_WriteCoilsByteCount ==
  ( /\ step.op = "query" /\ step.ret = 0
    /\ qry.telegram.u8fct = MB_FC_WRITE_MULTIPLE_COILS
    /\ qry.telegram.u16CoilsNo >= 1 )
    => /\ step.tx[BYTE_CNT + 1] = bytesFor(qry.telegram.u16CoilsNo)
       /\ Len(step.tx) = 7 + bytesFor(qry.telegram.u16CoilsNo) + 2

\* C30: when validateRequest has accepted a request, whatever its start
\* address and quantity, the handler reads and writes the bank passed to
\* poll() for that function only at indices below the bank's size.
C30_HandlerWithinBank ==
  (step.op = "spoll" /\ step.exc = 0) => ~ubMem

\* C31: every call of the slave's poll returns: for every request that
\* validateRequest accepts, whatever its start address and quantity, the
\* loop of the handler it is passed to comes to its end.
C31_PollReturns ==
  (step.op \in {"spoll", "irq"} /\ step.exc = 0) => (step.path # "hang" /\ ~hung)

\* the image words a reading telegram asks for: one per register, one per
\* sixteen coils
asked(t) ==
  IF t.u8fct \in {MB_FC_READ_REGISTERS, MB_FC_READ_INPUT_REGISTER}
  THEN t.u16CoilsNo ELSE (t.u16CoilsNo + 15) \div 16

\* C32: when the master takes a reply with a correct CRC to its query of
\* function 1, 2, 3 or 4 for N items, whatever the reply's byte count, it
\* changes only image words the query asked for and the data bytes it reads
\* lie inside the frame it received.
C32_ReplyWithinQuery ==
  [][ ( /\ step'.op = "mpoll" /\ step'.path = "ok"
        /\ master.u8state = COM_WAITING
        /\ qry.telegram.u8fct \in {MB_FC_READ_COILS, MB_FC_READ_DISCRETE_INPUT,
                                   MB_FC_READ_REGISTERS, MB_FC_READ_INPUT_REGISTER}
        /\ step'.rxd[ID + 1] = qry.telegram.u8id
        /\ step'.rxd[FUNC + 1] = qry.telegram.u8fct )
      => /\ \A i \in 0..(ImgLen - 1) :
              au16data'[i] # au16data[i] => i < asked(qry.telegram)
         /\ 3 + step'.rxd[3] <= Len(step'.rxd) ]_vars

\* C33: the master's poll() changes the image from a received frame only
\* when the master is waiting for a reply and the frame's address and
\* function bytes are the slave id and the function of the query it waits
\* for.
C33_ReplyMatchesQuery ==
  [][ (step'.op = "mpoll" /\ au16data' # au16data)
        => /\ master.u8state = COM_WAITING
           /\ step'.rxd[ID + 1] = qry.telegram.u8id
           /\ step'.rxd[FUNC + 1] = qry.telegram.u8fct ]_vars

\* C34: a poll() of a master that is Idle with an empty receive FIFO leaves
\* u8state, u8lastError and the three counters as they are, however long
\* ago the last transmission was.
C34_IdlePollChangesNothing ==
  [][ (step'.op = "mpoll" /\ master.u8state = COM_IDLE /\ mRx = <<>>)
        => /\ master'.u8state = master.u8state
           /\ master'.u8lastError = master.u8lastError
           /\ master'.u16InCnt = master.u16InCnt
           /\ master'.u16OutCnt = master.u16OutCnt
           /\ master'.u16errCnt = master.u16errCnt ]_vars

====
